---- MODULE Spec2Model ----
(***************************************************************************)
(* The two pages of the lung tumour web front-end as one state machine:    *)
(* the classification page (web/classification/script.js, class            *)
(* LungTumorClassifier) and the augmentation page                          *)
(* (web/augmentation/augmentation-script.js, class ImageAugmentationApp).  *)
(* One behaviour is the life of one page instance: the variable `page`     *)
(* says which of the two was loaded.  Every action is one run-to-          *)
(* completion task of the browser's event loop: a DOM event handler or the *)
(* continuation of an `await` up to its next suspension point.             *)
(***************************************************************************)
EXTENDS Bags, FiniteSets, Integers, Sequences, TLC

VARIABLES
    page,           \* which page this instance is
    factory,        \* window.GradioClient is defined
    gradioClient,   \* this.gradioClient: 0 is null, k the handle of the k-th successful connect
    currentImage,   \* this.currentImage
    dom,            \* the elements the handlers write: panels, submit control, preview, status
    readers,        \* FileReaders of displayImagePreview still decoding
    boot,           \* the initializeGradioClient() started by the constructor
    requests,       \* running analyzeImage()/generateAugmentations() invocations (a bag)
    resultData,     \* classification: the entry the result elements were last filled from
    augmentationResults, \* augmentation: this.augmentationResults
    userFiles,      \* the files this user picks and drops (fixed for the session)
    errors,         \* the messages the last task passed to showError, in order
    slots,          \* augmentation: the 8 slots of the grid
    listeners,      \* augmentation: click listeners on each download button and container
    timers,         \* augmentation: the timers of downloadAll not fired yet, in firing order
    saves,          \* augmentation: the saves the last task triggered, in order
    imageModal      \* augmentation: the fullscreen image modal

vars == <<page, factory, gradioClient, currentImage, dom, readers, boot,
          requests, resultData, augmentationResults, userFiles, errors,
          slots, listeners, timers, saves, imageModal>>

----------------------------------------------------------------------------
(* Bounds of the model *)

\* submissions running at the same time
MaxRequests == 2

\* responses rendered by one page instance
MaxRenders == 2

\* classes in a probability mapping
MaxClasses == 2

(* Program constants *)

\* attempts < 50
MaxAttempts == 50
\* 10 * 1024 * 1024
MaxFileSize == 10 * 1024 * 1024

Pages == {"classification", "augmentation"}

----------------------------------------------------------------------------
(* Files the user can pick or drop *)

NoFile == [name |-> "null", type |-> "", size |-> 0]

InputFiles ==
    { [name |-> "a.png",  type |-> "image/png",       size |-> 1024],
      [name |-> "b.jpeg", type |-> "image/jpeg",      size |-> MaxFileSize],
      [name |-> "c.jpg",  type |-> "image/jpg",       size |-> MaxFileSize + 1],
      [name |-> "e.gif",  type |-> "image/gif",       size |-> 1024],
      [name |-> "f.pdf",  type |-> "application/pdf", size |-> MaxFileSize],
      [name |-> "g",      type |-> "",                size |-> MaxFileSize + 1] }

\* variant: the GIF type is valid as well
validTypesWithGif == {"image/jpeg", "image/jpg", "image/png", "image/gif"}

validTypes == {"image/jpeg", "image/jpg", "image/png"}

isValidImageFile(file) == file.type \in validTypes

\* variant: a file of exactly the maximum size is too large
TooLargeAtLimit(file) == file.size >= MaxFileSize

TooLarge(file) == file.size > MaxFileSize

----------------------------------------------------------------------------
(* Values of JavaScript: a missing property, and truthiness *)

Absent == "<undefined>"

Truthy(v) == v \notin {Absent, "", "<null>"}

(* Error messages are sequences of words, so that String.includes can be
   computed; showError's argument is the sequence it is called with. *)

Includes(message, word) == \E i \in 1..Len(message) : message[i] = word

----------------------------------------------------------------------------
(* The elements of the page, as the handlers write them.  A panel is TRUE
   when its style.display is not "none". *)

InitialDom ==
    [ loadingState   |-> FALSE,
      resultsContent |-> FALSE,
      emptyState     |-> TRUE,
      submitDisabled |-> TRUE,
      imagePreview   |-> FALSE,
      uploadArea     |-> TRUE,
      previewImg     |-> NoFile,
      status         |-> "ready" ]

updateStatus(d, type) == [d EXCEPT !.status = type]

\* classification
showLoadingState(d) ==
    [d EXCEPT !.loadingState = TRUE, !.resultsContent = FALSE, !.emptyState = FALSE]

\* classification
showEmptyState(d) ==
    [d EXCEPT !.emptyState = TRUE, !.resultsContent = FALSE, !.loadingState = FALSE]

\* augmentation
showLoading(d) ==
    [d EXCEPT !.loadingState = TRUE, !.resultsContent = FALSE, !.emptyState = FALSE,
              !.submitDisabled = TRUE]

\* augmentation
hideLoading(d) == [d EXCEPT !.loadingState = FALSE, !.submitDisabled = FALSE]

\* augmentation
showResults(d) == [d EXCEPT !.resultsContent = TRUE, !.emptyState = FALSE]

\* augmentation: the panel part of hideResults
hideResultsPanel(d) == [d EXCEPT !.resultsContent = FALSE, !.emptyState = TRUE]

\* variant: showError only adds the notification on both pages
showErrorNotification(p, d) == d

\* The effect of showError on the elements: the classification page's showError
\* ends with showEmptyState(), the augmentation page's only adds the notification.
showError(p, d) == IF p = "classification" THEN showEmptyState(d) ELSE d

----------------------------------------------------------------------------
(* Messages *)

InvalidTypeMessage(p) ==
    IF p = "classification"
    THEN <<"Please", "upload", "a", "valid", "image", "file">>
    ELSE <<"Please", "select", "a", "valid", "image", "file">>

TooLargeMessage == <<"File", "size", "too", "large.">>

NoImageMessage == <<"No", "image", "selected.">>

ConnectFailedMessage == <<"Failed", "to", "connect", "to", "the", "AI", "service.">>

\* error.message of the TypeError thrown by this.gradioClient.predict on null
NullClientError == <<"Cannot", "read", "properties", "of", "null">>

\* error.message of the TypeError thrown by readAsArrayBuffer(null)
NotABlobError == <<"parameter", "1", "is", "not", "of", "type", "'Blob'.">>

\* reader.onerror rejects with the event, which has no message property
NoMessage == <<Absent>>

NoValidResponse == <<"No", "valid", "response", "from", "Gradio", "API">>

InvalidFormat == <<"Invalid", "response", "format", "from", "API">>

\* the messages a rejected predict call carries
PredictErrors ==
    { <<"Failed", "to", "fetch">>, <<"ERR_FILE_NOT_FOUND">>, <<"Space", "is", "paused">> }

----------------------------------------------------------------------------
(* initializeGradioClient: the polling loop and its outcome *)

\* variant: the loop condition admits one more wait
pollAgainOnceMore(attempts, fac) == ~fac /\ attempts <= MaxAttempts

\* the loop condition: !window.GradioClient && attempts < 50
pollAgain(attempts, fac) == ~fac /\ attempts < MaxAttempts

\* where the function stands after the loop condition was evaluated with `attempts`:
\* waiting for the next timer, failed (factory missing), or awaiting connect()
initStep(attempts, fac) ==
    IF pollAgain(attempts, fac) THEN "poll"
    ELSE IF ~fac THEN "failed" ELSE "connect"

\* the catch block of initializeGradioClient
initFailed(p, d) == showError(p, updateStatus(d, "error"))

\* the two lines after a resolved connect()
initConnected(d) == updateStatus(d, "ready")

----------------------------------------------------------------------------
(* The catch blocks of the two submit methods *)

\* classification: showError(`Analysis failed: ${error.message}`); updateStatus("Error", "error")
analyzeCatchMessage(message) == <<"Analysis", "failed:">> \o message

\* augmentation: the message chosen from error.message
augmentCatchMessage(message) ==
    IF Includes(message, "ERR_FILE_NOT_FOUND")
    THEN <<"API", "connection", "issue">>
    ELSE IF Includes(message, "fetch")
         THEN <<"Network", "error">>
         ELSE <<"Error:">> \o message

catchMessage(p, message) ==
    IF p = "classification" THEN analyzeCatchMessage(message) ELSE augmentCatchMessage(message)

\* the catch block throws itself when error.message is undefined and the page is the
\* augmentation page (error.message.includes): nothing after it runs
catchThrows(p, message) == p = "augmentation" /\ message = NoMessage

catchDom(p, d, message) ==
    IF catchThrows(p, message) THEN d ELSE updateStatus(showError(p, d), "error")

catchErrors(p, message) ==
    IF catchThrows(p, message) THEN <<>> ELSE <<catchMessage(p, message)>>

----------------------------------------------------------------------------
(* Responses of the classification endpoint and how analyzeImage reads them *)

\* the class names the model was trained on (the keys of getClassColor), and one
\* it was not
KnownClasses ==
    {"adenocarcinoma", "large.cell.carcinoma", "normal", "squamous.cell.carcinoma"}

ClassNames == KnownClasses \cup {"benign"}

Entry(name, value) == [name |-> name, value |-> value]

DefaultEntries == << Entry("normal", 970), Entry("adenocarcinoma", 30) >>

\* the probability mappings of at most MaxClasses classes: no class twice
Mappings ==
    UNION { {s \in [1..n -> [name : ClassNames, value : {100, 450}]] :
                \A i, j \in 1..n : i # j => s[i].name # s[j].name}
            : n \in 0..MaxClasses }

\* shape: "null" (result is falsy), "nodata" (result.data is missing), "nofirst"
\* (result.data[0] is missing) or "entry" (result.data[0] is an object with the
\* three properties below, each possibly missing)
\* entries is Object.entries(probabilities): the properties of the mapping in
\* their order, each a class name with its probability in thousandths; it is
\* empty for a missing mapping
ClsResponses ==
    [shape : {"null", "nodata", "nofirst"}, error : {Absent}, class : {Absent},
     probabilities : {Absent}, entries : {<<>>}]
    \cup
    [shape : {"entry"}, error : {Absent, "", "model unavailable"},
     class : {Absent, "normal"},
     probabilities : {Absent}, entries : {<<>>}]
    \cup
    [shape : {"entry"}, error : {Absent, "", "model unavailable"},
     class : {Absent, "normal"},
     probabilities : {"{normal: 0.97, ...}"}, entries : {DefaultEntries}]

NoData ==
    [shape |-> "null", error |-> Absent, class |-> Absent, probabilities |-> Absent,
     entries |-> <<>>]

\* result && result.data && result.data[0]
hasFirstEntry(resp) == resp.shape = "entry"

\* apiResult.class && apiResult.probabilities
\* variant: one of the two fields is enough
hasClassOrProbabilities(entry) == Truthy(entry.class) \/ Truthy(entry.probabilities)

hasResultShape(entry) == Truthy(entry.class) /\ Truthy(entry.probabilities)

\* variant: the shape check comes before the error check
analyzeResultShapeFirst(resp) ==
    IF hasFirstEntry(resp)
    THEN IF Truthy(resp.class) /\ Truthy(resp.probabilities)
         THEN [render |-> TRUE, message |-> <<>>]
         ELSE IF Truthy(resp.error)
              THEN [render |-> FALSE, message |-> <<resp.error>>]
              ELSE [render |-> FALSE, message |-> InvalidFormat]
    ELSE [render |-> FALSE, message |-> NoValidResponse]

\* what the try block does with the response: render it, or throw an Error whose
\* message is given
analyzeResult(resp) ==
    IF hasFirstEntry(resp)
    THEN IF Truthy(resp.error)
         THEN [render |-> FALSE, message |-> <<resp.error>>]
         ELSE IF hasResultShape(resp)
              THEN [render |-> TRUE, message |-> <<>>]
              ELSE [render |-> FALSE, message |-> InvalidFormat]
    ELSE [render |-> FALSE, message |-> NoValidResponse]

\* the panel part of displayResults
displayResults(d) ==
    [d EXCEPT !.loadingState = FALSE, !.emptyState = FALSE, !.resultsContent = TRUE]

----------------------------------------------------------------------------
(* What displayResults writes into the result elements: the probability bars
   and the chart.  Both are filled from the entry displayResults is called
   with, so they are functions of resultData. *)

\* ([, a], [, b]) => b - a: positive when b goes before a
\* variant: ascending order
compareAscending(a, b) == a.value - b.value

compare(a, b) == b.value - a.value

\* Array.prototype.sort with the comparator: a stable sort.  The entries are taken
\* in their order; each goes behind the ones that do not have to follow it
RECURSIVE sort(_)
sort(s) ==
    IF s = <<>> THEN <<>>
    ELSE LET done == sort(SubSeq(s, 1, Len(s) - 1))
             e    == s[Len(s)]
             k    == Cardinality({i \in 1..Len(done) : compare(done[i], e) <= 0})
         IN  SubSeq(done, 1, k) \o <<e>> \o SubSeq(done, k + 1, Len(done))

\* formatClassName: the words between the dots, capitalised and joined by blanks
formatClassName(name) ==
    CASE name = "adenocarcinoma"          -> "Adenocarcinoma"
      [] name = "large.cell.carcinoma"    -> "Large Cell Carcinoma"
      [] name = "normal"                  -> "Normal"
      [] name = "squamous.cell.carcinoma" -> "Squamous Cell Carcinoma"
      [] name = "benign"                  -> "Benign"

\* colors[className] || "#3498db"
getClassColor(name) ==
    CASE name = "adenocarcinoma"          -> "#e74c3c"
      [] name = "large.cell.carcinoma"    -> "#f39c12"
      [] name = "normal"                  -> "#27ae60"
      [] name = "squamous.cell.carcinoma" -> "#f1c40f"
      [] OTHER                            -> "#3498db"

\* icons[className] || the target icon
getClassIcon(name) ==
    CASE name = "adenocarcinoma"          -> "red"
      [] name = "large.cell.carcinoma"    -> "orange"
      [] name = "normal"                  -> "check"
      [] name = "squamous.cell.carcinoma" -> "yellow"
      [] OTHER                            -> "target"

\* (probability * 100).toFixed(1): the percentage with one decimal, written here
\* in tenths of a percent, which a probability in thousandths gives exactly
percentage(value) == value

\* the bar containers appended to probabilityBars, in order
createProbabilityBars(entries) ==
    LET sortedProbs == sort(entries)
    IN  [i \in 1..Len(sortedProbs) |->
            [name  |-> formatClassName(sortedProbs[i].name),
             value |-> percentage(sortedProbs[i].value),
             color |-> getClassColor(sortedProbs[i].name),
             icon  |-> getClassIcon(sortedProbs[i].name)]]

\* variant: the chart takes the entries as they come
createChartUnsorted(entries) ==
    [labels |-> [i \in 1..Len(entries) |-> formatClassName(entries[i].name)],
     data   |-> [i \in 1..Len(entries) |-> percentage(entries[i].value)],
     backgroundColor |-> [i \in 1..Len(entries) |-> getClassColor(entries[i].name)]]

\* the data of the doughnut chart
createChart(entries) ==
    LET sortedProbs == sort(entries)
    IN  [labels |-> [i \in 1..Len(sortedProbs) |-> formatClassName(sortedProbs[i].name)],
         data   |-> [i \in 1..Len(sortedProbs) |-> percentage(sortedProbs[i].value)],
         backgroundColor |->
             [i \in 1..Len(sortedProbs) |-> getClassColor(sortedProbs[i].name)]]

\* the children of this.probabilityBars and the data of this.chart
probabilityBars == createProbabilityBars(resultData.entries)

chart == createChart(resultData.entries)

\* the responses that are rendered, with every mapping
BarResponses ==
    [shape : {"entry"}, error : {Absent}, class : {"normal"},
     probabilities : {"{normal: 0.97, ...}"}, entries : Mappings]

----------------------------------------------------------------------------
(* Responses of the augmentation endpoint and how generateAugmentations reads them *)

NullUrl == "<null>"

StringItem == [kind |-> "string", str |-> "s.png", url |-> Absent,  path |-> Absent]

UrlItem    == [kind |-> "object", str |-> Absent,  url |-> "u.png", path |-> "q.png"]

PathItem   == [kind |-> "object", str |-> Absent,  url |-> Absent,  path |-> "p.png"]

NullItem   == [kind |-> "null",   str |-> Absent,  url |-> Absent,  path |-> Absent]

\* the arrays the endpoint answers with
AugArrays ==
    { <<>>, <<NullItem>>, <<NullItem, UrlItem>>, <<StringItem, PathItem>> }

\* shape: "null" (result is falsy), "nodata" (result.data is falsy), "notarray"
\* (result.data is truthy and no array) or "array"
AugResponses ==
    [shape : {"null", "nodata", "notarray"}, data : {<<>>}]
    \cup [shape : {"array"}, data : AugArrays]

\* the responses of an endpoint whose payloads are all alike: besides the
\* unusable shapes, one array of usable items
PlainAugResponses ==
    {resp \in AugResponses : resp.data \in {<<>>, <<StringItem, PathItem>>}}

\* the callback of result.data.map
itemUrl(item) ==
    IF item.kind = "string" THEN item.str
    ELSE IF item.kind = "object" /\ Truthy(item.url) THEN item.url
    ELSE IF item.kind = "object" /\ Truthy(item.path) THEN item.path
    ELSE NullUrl

NotNull(url) == url # NullUrl

\* result.data.map(...).filter((url) => url !== null)
imageUrls(data) == SelectSeq([i \in 1..Len(data) |-> itemUrl(data[i])], NotNull)

InvalidAugFormat == <<"Invalid", "response", "format">>

augmentResult(resp) ==
    IF resp.shape \in {"notarray", "array"}
    THEN IF resp.shape = "array" /\ Len(resp.data) >= 1
         THEN [render |-> TRUE, message |-> <<>>]
         ELSE [render |-> FALSE, message |-> InvalidAugFormat]
    ELSE [render |-> FALSE, message |-> NoValidResponse]

\* this.augmentationResults: null until the first rendered response
NullResults == [isNull |-> TRUE, urls |-> <<>>]

Results(urls) == [isNull |-> FALSE, urls |-> urls]

----------------------------------------------------------------------------
(* The augmentation grid: 8 fixed slots, each an item element holding an image
   container with an <img> and a download button.  A slot is
     src      the src of its <img> ("" when empty)
     loading  its container carries the class "loading"
     loaded   its item carries the class "loaded"
     error    its item carries the class "error"
     hooked   its <img> has the onload/onerror handlers of displayAugmentations
     pending  the outcome the browser still owes for the last assignment of src:
              "fetch" (a load or an error event), "empty" (the error event of
              an emptied source) or "none" *)

\* the element ids of displayAugmentations
imageElements ==
    << "originalImage", "rotationImage", "widthShiftImage", "heightShiftImage",
       "shearImage", "zoomImage", "brightnessImage", "channelShiftImage" >>

NumSlots == Len(imageElements)

SlotIds == 1..NumSlots

\* the types of downloadAll, in slot order
types ==
    << "original", "rotation", "width-shift", "height-shift",
       "shear", "zoom", "brightness", "channel-shift" >>

\* the data-type attribute of the download button of slot i
buttonType(i) == types[i]

EmptySlot ==
    [src |-> "", loading |-> FALSE, loaded |-> FALSE, error |-> FALSE,
     hooked |-> FALSE, pending |-> "none"]

\* the grid as the markup gives it
InitialSlots == [i \in SlotIds |-> EmptySlot]

\* results[index] of displayAugmentations is truthy (index counted from 1 here)
hasResult(urls, i) == i <= Len(urls) /\ urls[i] # ""

\* the forEach of displayAugmentations.  A slot with a reference gets the class
\* "loading", the two handlers and the reference as src; any other slot gets the
\* class "error" and nothing else of it is touched
renderSlots(s, urls) ==
    [i \in SlotIds |->
        IF hasResult(urls, i)
        THEN [s[i] EXCEPT !.loading = TRUE, !.hooked = TRUE, !.src = urls[i],
                          !.pending = "fetch"]
        ELSE [s[i] EXCEPT !.error = TRUE]]

\* the two forEach of hideResults: img.src = "" on every image, then the classes
\* "loaded" and "error" are removed from every item.  The class "loading" of the
\* containers is left as it is.  Emptying the source aborts a running fetch and
\* makes the browser fire an error event at the image; it is recorded as
\* pending only where a handler listens for it
clearSlots(s) ==
    [i \in SlotIds |->
        [s[i] EXCEPT !.src = "", !.loaded = FALSE, !.error = FALSE,
                     !.pending = IF s[i].hooked THEN "empty" ELSE "none"]]

\* variant: the load handler removes the class "loading" and adds nothing
onloadUnmarked(slot) == [slot EXCEPT !.loading = FALSE, !.pending = "none"]

\* img.onload of displayAugmentations
onload(slot) == [slot EXCEPT !.loading = FALSE, !.loaded = TRUE, !.pending = "none"]

\* img.onerror of displayAugmentations
onerror(slot) == [slot EXCEPT !.loading = FALSE, !.error = TRUE, !.pending = "none"]

\* downloadImage(imageUrl, type): one save, or none without a url
downloadImage(url, type) ==
    IF url = "" THEN <<>> ELSE << [url |-> url, type |-> type] >>

\* this.augmentationResults && this.augmentationResults[index] (index from 1 here)
resultAt(results, i) ==
    IF ~results.isNull /\ hasResult(results.urls, i) THEN results.urls[i] ELSE ""

\* the image modal created by createImageModal
ClosedModal == [active |-> FALSE, src |-> ""]

\* String.prototype.endsWith, for the suffixes the page uses: every string ends
\* with the empty string
endsWith(str, suffix) == suffix = "" \/ str = suffix

\* the test of the container's click handler: img.src && !img.src.endsWith("")
opensModal(src) == src # "" /\ ~endsWith(src, "")

----------------------------------------------------------------------------
(* State after construction.  The markup the constructor finds is the initial
   state of the elements; the constructor starts initializeGradioClient, which
   runs up to its first await.  A session is one user with one picture and
   the files that are no pictures. *)

Pictures == {f \in InputFiles : f.name \in {"a.png", "b.jpeg", "c.jpg"}}

Sessions == { {f} \cup (InputFiles \ Pictures) : f \in Pictures }

\* the sessions of a page.  processFile of the augmentation page does not look at
\* the size: its sessions bring the smallest or the largest picture
sessionsOf(p) ==
    IF p = "classification" THEN Sessions
    ELSE {s \in Sessions : \E f \in s : f.name \in {"a.png", "c.jpg"}}

NewRequest(pc, attempts, file, submitted) ==
    [pc |-> pc, attempts |-> attempts, file |-> file, submitted |-> submitted]

constructedDom(p) ==
    updateStatus(InitialDom, IF p = "classification" THEN "processing" ELSE "ready")

Init ==
    /\ page \in Pages
    /\ factory \in BOOLEAN
    /\ userFiles \in sessionsOf(page)
    /\ gradioClient = 0
    /\ currentImage = NoFile
    /\ dom = constructedDom(page)
    /\ readers = {}
    /\ boot = [pc |-> initStep(0, factory), attempts |-> 0]
    /\ requests = EmptyBag
    /\ resultData = NoData
    /\ augmentationResults = NullResults
    /\ errors = <<>>
    /\ slots = InitialSlots
    /\ listeners = 0
    /\ timers = <<>>
    /\ saves = <<>>
    /\ imageModal = ClosedModal

----------------------------------------------------------------------------
(* A task that does not touch the grid, saves nothing and leaves the timers of
   downloadAll and the image modal alone *)

GridUntouched ==
    /\ saves' = <<>>
    /\ UNCHANGED <<slots, listeners, timers, imageModal>>

----------------------------------------------------------------------------
(* The environment: the client library finishes loading.  The counter of a
   polling loop is read only after !window.GradioClient, which is false from
   now on, so its value is dropped from the state. *)

Forget(init) == IF init.pc = "poll" THEN [init EXCEPT !.attempts = 0] ELSE init

ForgetAll(bag) ==
    LET S == BagToSet(bag)
        Count(t) ==
            BagCardinality([r \in {q \in S : Forget(q) = t} |-> bag[r]])
    IN  [t \in {Forget(r) : r \in S} |-> Count(t)]

LoadFactory ==
    /\ ~factory
    /\ factory' = TRUE
    /\ boot' = Forget(boot)
    /\ requests' = ForgetAll(requests)
    /\ errors' = <<>>
    /\ UNCHANGED <<page, userFiles, gradioClient, currentImage, dom, readers,
                   resultData, augmentationResults>>
    /\ GridUntouched

----------------------------------------------------------------------------
(* The initializeGradioClient() of the constructor *)

\* a timer of the polling loop fires
BootPoll ==
    /\ boot.pc = "poll"
    /\ LET a  == boot.attempts + 1
           st == initStep(a, factory)
       IN  /\ boot' = IF st = "poll" THEN [pc |-> "poll", attempts |-> a]
                      ELSE IF st = "connect" THEN [pc |-> "connect", attempts |-> 0]
                      ELSE [pc |-> "done", attempts |-> 0]
           /\ dom' = IF st = "failed" THEN initFailed(page, dom) ELSE dom
           /\ errors' = IF st = "failed" THEN <<ConnectFailedMessage>> ELSE <<>>
    /\ UNCHANGED <<page, userFiles, factory, gradioClient, currentImage, readers,
                   requests, resultData, augmentationResults>>
    /\ GridUntouched

\* connect() resolves or rejects
BootConnect(ok) ==
    /\ boot.pc = "connect"
    /\ boot' = [pc |-> "done", attempts |-> 0]
    /\ gradioClient' = IF ok THEN gradioClient + 1 ELSE gradioClient
    /\ dom' = IF ok THEN initConnected(dom) ELSE initFailed(page, dom)
    /\ errors' = IF ok THEN <<>> ELSE <<ConnectFailedMessage>>
    /\ UNCHANGED <<page, userFiles, factory, currentImage, readers, requests,
                   resultData, augmentationResults>>
    /\ GridUntouched

----------------------------------------------------------------------------
(* The upload controller *)

\* processFile accepts the file
accepts(p, file) ==
    /\ isValidImageFile(file)
    /\ p = "classification" => ~TooLarge(file)

rejectMessage(p, file) ==
    IF ~isValidImageFile(file) THEN InvalidTypeMessage(p) ELSE TooLargeMessage

\* the lines of processFile after the validation
acceptDom(d) == updateStatus([d EXCEPT !.submitDisabled = FALSE], "ready")

\* handleDrop / handleImageSelect / handleFileSelect with a file: processFile(file)
ProcessFile(file) ==
    /\ file \in userFiles
    /\ IF accepts(page, file)
       THEN /\ currentImage' = file
            /\ readers' = readers \cup {file}
            /\ dom' = acceptDom(dom)
            /\ errors' = <<>>
       ELSE /\ dom' = showError(page, dom)
            /\ errors' = <<rejectMessage(page, file)>>
            /\ UNCHANGED <<currentImage, readers>>
    /\ UNCHANGED <<page, userFiles, factory, gradioClient, boot, requests,
                   resultData, augmentationResults>>
    /\ GridUntouched

\* reader.onload of displayImagePreview
previewLoaded(p, d, file) ==
    IF p = "classification"
    THEN [d EXCEPT !.previewImg = file, !.imagePreview = TRUE, !.uploadArea = FALSE]
    ELSE [d EXCEPT !.previewImg = file, !.imagePreview = TRUE]

PreviewLoaded(file) ==
    /\ file \in readers
    /\ readers' = readers \ {file}
    /\ dom' = previewLoaded(page, dom, file)
    /\ errors' = <<>>
    /\ UNCHANGED <<page, userFiles, factory, gradioClient, currentImage, boot,
                   requests, resultData, augmentationResults>>
    /\ GridUntouched

\* clearImageSelection (classification) / clearImage (augmentation): the elements
clearDom(p, d) ==
    IF p = "classification"
    THEN updateStatus(
             showEmptyState([d EXCEPT !.imagePreview = FALSE, !.uploadArea = TRUE,
                                      !.submitDisabled = TRUE]),
             "ready")
    ELSE updateStatus(
             hideResultsPanel([d EXCEPT !.imagePreview = FALSE, !.submitDisabled = TRUE]),
             "ready")

ClearImage ==
    /\ currentImage' = NoFile
    /\ dom' = clearDom(page, dom)
    /\ slots' = IF page = "augmentation" THEN clearSlots(slots) ELSE slots
    /\ errors' = <<>>
    /\ saves' = <<>>
    /\ UNCHANGED <<page, userFiles, factory, gradioClient, readers, boot, requests,
                   resultData, augmentationResults, listeners, timers, imageModal>>

----------------------------------------------------------------------------
(* The request orchestrators: analyzeImage (classification) and
   generateAugmentations (augmentation).  A request is the record of one running
   invocation: pc is the await it is suspended at ("poll" and "connect" inside
   its own initializeGradioClient(), "toBlob" in fileToBlob, "predict" in the
   predict call), attempts the counter of its polling loop, file the file given
   to fileToBlob and sent as the payload.  submitted records the image that was
   selected when the method was invoked; the method keeps no copy of it and no
   statement reads the field. *)

Without(r) == requests (-) SetToBag({r})

With(bag, r) == bag (+) SetToBag({r})

Outstanding == BagCardinality(requests)

\* some initializeGradioClient() is in its polling loop.  Polling loops are explored
\* one at a time: a submission that would start a second one is not taken.
Polling == boot.pc = "poll" \/ \E r \in BagToSet(requests) : r.pc = "poll"

InFlight(pc) ==
    BagCardinality([r \in {q \in BagToSet(requests) : q.pc = pc} |-> requests[r]])

\* the statements of the try block once the connection step is over:
\* fileToBlob(this.currentImage) is called with the image selected NOW; with no
\* image readAsArrayBuffer throws and the catch block runs
AfterEnsure(rest, d, errs, submitted) ==
    IF currentImage = NoFile
    THEN /\ requests' = rest
         /\ dom' = catchDom(page, d, NotABlobError)
         /\ errors' = errs \o catchErrors(page, NotABlobError)
    ELSE /\ requests' = With(rest, NewRequest("toBlob", 0, currentImage, submitted))
         /\ dom' = d
         /\ errors' = errs

\* showLoadingState() (classification) / showLoading() (augmentation), then
\* updateStatus(..., "processing")
submitLoading(p, d) ==
    updateStatus(IF p = "classification" THEN showLoadingState(d) ELSE showLoading(d),
                 "processing")

\* variant: the method does not look at the selection
alwaysHasImage(image) == TRUE

\* the method has an image to work on: if (!this.currentImage) { showError; return }
hasImage(image) == image # NoFile

\* the body of analyzeImage / generateAugmentations up to its first suspension
SubmitBody ==
    IF ~hasImage(currentImage)
    THEN /\ dom' = showError(page, dom)
         /\ errors' = <<NoImageMessage>>
         /\ UNCHANGED <<gradioClient, requests>>
    ELSE /\ Outstanding < MaxRequests
         /\ UNCHANGED gradioClient
         /\ IF gradioClient # 0
            THEN AfterEnsure(requests, submitLoading(page, dom), <<>>, currentImage)
            ELSE /\ initStep(0, factory) = "poll" => ~Polling
                 /\ requests' = With(requests, NewRequest(initStep(0, factory), 0, NoFile,
                                                      currentImage))
                 /\ dom' = submitLoading(page, dom)
                 /\ errors' = <<>>

\* the submit control can be operated: a click on a disabled button is not
\* dispatched; the keydown handler of the augmentation page calls
\* generateAugmentations on Enter when an image is selected and the button enabled
canSubmit(p, d, image, via) ==
    IF via = "click" THEN ~d.submitDisabled
    ELSE p = "augmentation" /\ image # NoFile /\ ~d.submitDisabled

Submit(via) ==
    /\ canSubmit(page, dom, currentImage, via)
    /\ SubmitBody
    /\ UNCHANGED <<page, userFiles, factory, currentImage, readers, boot,
                   resultData, augmentationResults>>
    /\ GridUntouched

\* analyzeImage() / generateAugmentations() called as a method, whatever the state
\* of the submit control
SubmitCall ==
    /\ SubmitBody
    /\ UNCHANGED <<page, userFiles, factory, currentImage, readers, boot,
                   resultData, augmentationResults>>
    /\ GridUntouched

\* a timer of the request's polling loop fires
RequestPoll(r) ==
    /\ r \in BagToSet(requests)
    /\ r.pc = "poll"
    /\ LET a  == r.attempts + 1
           st == initStep(a, factory)
       IN  IF st = "failed"
           THEN AfterEnsure(Without(r), initFailed(page, dom), <<ConnectFailedMessage>>,
                            r.submitted)
           ELSE /\ requests' = With(Without(r),
                                    IF st = "poll"
                                    THEN NewRequest("poll", a, NoFile, r.submitted)
                                    ELSE NewRequest("connect", 0, NoFile, r.submitted))
                /\ errors' = <<>>
                /\ UNCHANGED dom
    /\ UNCHANGED <<page, userFiles, factory, gradioClient, currentImage, readers, boot,
                   resultData, augmentationResults>>
    /\ GridUntouched

\* the request's connect() resolves or rejects
RequestConnect(r, ok) ==
    /\ r \in BagToSet(requests)
    /\ r.pc = "connect"
    /\ gradioClient' = IF ok THEN gradioClient + 1 ELSE gradioClient
    /\ IF ok
       THEN AfterEnsure(Without(r), initConnected(dom), <<>>, r.submitted)
       ELSE AfterEnsure(Without(r), initFailed(page, dom), <<ConnectFailedMessage>>,
                            r.submitted)
    /\ UNCHANGED <<page, userFiles, factory, currentImage, readers, boot,
                   resultData, augmentationResults>>
    /\ GridUntouched

\* the request fails: the catch block of the submit method
Fail(r, message) ==
    /\ requests' = Without(r)
    /\ dom' = catchDom(page, dom, message)
    /\ errors' = catchErrors(page, message)

\* the FileReader of fileToBlob ends: with the bytes, and predict is called on
\* this.gradioClient (a TypeError when it is null), or with an error event
BlobRead(r, ok) ==
    /\ r \in BagToSet(requests)
    /\ r.pc = "toBlob"
    /\ IF ~ok THEN Fail(r, NoMessage)
       ELSE IF gradioClient = 0 THEN Fail(r, NullClientError)
       ELSE /\ requests' = With(Without(r), NewRequest("predict", 0, r.file, r.submitted))
            /\ errors' = <<>>
            /\ UNCHANGED dom
    /\ UNCHANGED <<page, userFiles, factory, gradioClient, currentImage, readers, boot,
                   resultData, augmentationResults>>
    /\ GridUntouched

\* the predict call rejects
PredictRejected(r, message) ==
    /\ r \in BagToSet(requests)
    /\ r.pc = "predict"
    /\ Fail(r, message)
    /\ UNCHANGED <<page, userFiles, factory, gradioClient, currentImage, readers, boot,
                   resultData, augmentationResults>>
    /\ GridUntouched

\* classification: the predict call resolves with resp
AnalyzeResolved(r, resp) ==
    /\ page = "classification"
    /\ r \in BagToSet(requests)
    /\ r.pc = "predict"
    /\ IF analyzeResult(resp).render
       THEN /\ requests' = Without(r)
            /\ dom' = updateStatus(displayResults(dom), "success")
            /\ resultData' = resp
            /\ errors' = <<>>
       ELSE /\ Fail(r, analyzeResult(resp).message)
            /\ UNCHANGED resultData
    /\ UNCHANGED <<page, userFiles, factory, gradioClient, currentImage, readers, boot,
                   augmentationResults>>
    /\ GridUntouched

\* the panel part of displayAugmentations: hideLoading(); showResults()
displayAugmentations(d) == showResults(hideLoading(d))

\* augmentation: the predict call resolves with resp
AugmentResolved(r, resp) ==
    /\ page = "augmentation"
    /\ r \in BagToSet(requests)
    /\ r.pc = "predict"
    /\ IF augmentResult(resp).render
       THEN /\ listeners < MaxRenders
            /\ requests' = Without(r)
            /\ augmentationResults' = Results(imageUrls(resp.data))
            /\ dom' = updateStatus(displayAugmentations(dom), "success")
            /\ slots' = renderSlots(slots, imageUrls(resp.data))
            /\ listeners' = listeners + 1
            /\ errors' = <<>>
       ELSE /\ Fail(r, augmentResult(resp).message)
            /\ UNCHANGED <<augmentationResults, slots, listeners>>
    /\ saves' = <<>>
    /\ UNCHANGED <<page, userFiles, factory, gradioClient, currentImage, readers, boot,
                   resultData, timers, imageModal>>

----------------------------------------------------------------------------
(* The augmentation grid at work: image events, downloads, the image modal *)

\* the grid and its buttons can be operated: they are inside the results panel
gridShown(d) == d.resultsContent

\* the load event of the image of slot i
ImageLoaded(i) ==
    /\ page = "augmentation"
    /\ slots[i].pending = "fetch"
    /\ slots' = [slots EXCEPT ![i] = onload(@)]
    /\ errors' = <<>>
    /\ saves' = <<>>
    /\ UNCHANGED <<page, userFiles, factory, gradioClient, currentImage, dom, readers,
                   boot, requests, resultData, augmentationResults, listeners, timers,
                   imageModal>>

\* the error event of the image of slot i: the fetch failed, or the source was
\* emptied
ImageFailed(i) ==
    /\ page = "augmentation"
    /\ slots[i].pending \in {"fetch", "empty"}
    /\ slots' = [slots EXCEPT ![i] = onerror(@)]
    /\ errors' = <<>>
    /\ saves' = <<>>
    /\ UNCHANGED <<page, userFiles, factory, gradioClient, currentImage, dom, readers,
                   boot, requests, resultData, augmentationResults, listeners, timers,
                   imageModal>>

\* what n listeners of one button save, each running the same handler
RECURSIVE savedBy(_, _)
savedBy(n, one) == IF n = 0 THEN <<>> ELSE one \o savedBy(n - 1, one)

\* a click on the download button of slot i: every listener that
\* setupDownloadButtons has added to it runs
DownloadClick(i) ==
    /\ page = "augmentation"
    /\ gridShown(dom)
    /\ saves' = savedBy(listeners,
                        downloadImage(resultAt(augmentationResults, i), buttonType(i)))
    /\ errors' = <<>>
    /\ UNCHANGED <<page, userFiles, factory, gradioClient, currentImage, dom, readers,
                   boot, requests, resultData, augmentationResults, slots, listeners,
                   timers, imageModal>>

\* variant: the timers fire from the last index down to the first
scheduledBackwards(results) ==
    [k \in 1..Len(results.urls) |-> Len(results.urls) + 1 - k]

\* the indexes (from 1) for which downloadAll sets a timer, in the order of
\* their delays
scheduled(results) ==
    IF results.isNull THEN <<>>
    ELSE LET Has(i) == hasResult(results.urls, i)
         IN  SelectSeq([i \in 1..Len(results.urls) |-> i], Has)

\* a click on downloadAllBtn.  One run of downloadAll is followed at a time
DownloadAll ==
    /\ page = "augmentation"
    /\ gridShown(dom)
    /\ timers = <<>>
    /\ timers' = scheduled(augmentationResults)
    /\ errors' = <<>>
    /\ saves' = <<>>
    /\ UNCHANGED <<page, userFiles, factory, gradioClient, currentImage, dom, readers,
                   boot, requests, resultData, augmentationResults, slots, listeners,
                   imageModal>>

\* the next timer of downloadAll fires: downloadImage(this.augmentationResults[i],
\* types[i]) with the results of now
TimerFires ==
    /\ timers # <<>>
    /\ timers' = Tail(timers)
    /\ saves' = downloadImage(resultAt(augmentationResults, Head(timers)),
                              types[Head(timers)])
    /\ errors' = <<>>
    /\ UNCHANGED <<page, userFiles, factory, gradioClient, currentImage, dom, readers,
                   boot, requests, resultData, augmentationResults, slots, listeners,
                   imageModal>>

\* showImageModal(img.src, img.alt)
showImageModal(src) == [active |-> TRUE, src |-> src]

\* a click on the image container of slot i: the listeners added by
\* setupImageClickHandlers run, all with the same test and the same effect
ContainerClick(i) ==
    /\ page = "augmentation"
    /\ gridShown(dom)
    /\ imageModal' = IF listeners > 0 /\ opensModal(slots[i].src)
                     THEN showImageModal(slots[i].src)
                     ELSE imageModal
    /\ errors' = <<>>
    /\ saves' = <<>>
    /\ UNCHANGED <<page, userFiles, factory, gradioClient, currentImage, dom, readers,
                   boot, requests, resultData, augmentationResults, slots, listeners,
                   timers>>

----------------------------------------------------------------------------

Next ==
    \/ LoadFactory
    \/ BootPoll
    \/ \E ok \in BOOLEAN : BootConnect(ok)
    \/ \E file \in InputFiles : ProcessFile(file)
    \/ \E file \in InputFiles : PreviewLoaded(file)
    \/ ClearImage
    \/ \E via \in {"click", "Enter"} : Submit(via)
    \/ \E r \in BagToSet(requests) : RequestPoll(r)
    \/ \E r \in BagToSet(requests), ok \in BOOLEAN : RequestConnect(r, ok)
    \/ \E r \in BagToSet(requests), ok \in BOOLEAN : BlobRead(r, ok)
    \/ \E r \in BagToSet(requests), message \in PredictErrors : PredictRejected(r, message)
    \/ \E r \in BagToSet(requests), resp \in ClsResponses : AnalyzeResolved(r, resp)
    \/ \E r \in BagToSet(requests), resp \in PlainAugResponses : AugmentResolved(r, resp)

\* the page driven through its controls
Spec == Init /\ [][Next]_vars

\* the page driven through its controls and through calls of the submit method
SpecApi == Init /\ [][Next \/ SubmitCall]_vars

\* the classification page alone
InitClassification == Init /\ page = "classification"

NextClassification ==
    \/ LoadFactory
    \/ BootPoll
    \/ \E ok \in BOOLEAN : BootConnect(ok)
    \/ \E file \in InputFiles : ProcessFile(file)
    \/ \E file \in InputFiles : PreviewLoaded(file)
    \/ ClearImage
    \/ Submit("click")
    \/ \E r \in BagToSet(requests) : RequestPoll(r)
    \/ \E r \in BagToSet(requests), ok \in BOOLEAN : RequestConnect(r, ok)
    \/ \E r \in BagToSet(requests), ok \in BOOLEAN : BlobRead(r, ok)
    \/ \E r \in BagToSet(requests), message \in PredictErrors : PredictRejected(r, message)
    \/ \E r \in BagToSet(requests), resp \in ClsResponses : AnalyzeResolved(r, resp)

SpecClassification == InitClassification /\ [][NextClassification]_vars

\* the augmentation page with its grid, from the moment the connection of the
\* page load is established
InitGrid ==
    /\ page = "augmentation"
    /\ factory = TRUE
    /\ userFiles \in sessionsOf(page)
    /\ gradioClient = 1
    /\ currentImage = NoFile
    /\ dom = initConnected(constructedDom(page))
    /\ readers = {}
    /\ boot = [pc |-> "done", attempts |-> 0]
    /\ requests = EmptyBag
    /\ resultData = NoData
    /\ augmentationResults = NullResults
    /\ errors = <<>>
    /\ slots = InitialSlots
    /\ listeners = 0
    /\ timers = <<>>
    /\ saves = <<>>
    /\ imageModal = ClosedModal

NextGrid ==
    \/ \E file \in Pictures : ProcessFile(file)
    \/ ClearImage
    \/ Submit("click")
    \/ \E r \in BagToSet(requests) : BlobRead(r, TRUE)
    \/ \E r \in BagToSet(requests), resp \in AugResponses : AugmentResolved(r, resp)
    \/ \E i \in SlotIds : ImageLoaded(i)
    \/ \E i \in SlotIds : ImageFailed(i)
    \/ \E i \in SlotIds : DownloadClick(i)
    \/ DownloadAll
    \/ TimerFires
    \/ \E i \in SlotIds : ContainerClick(i)

SpecGrid == InitGrid /\ [][NextGrid]_vars

\* the classification page and what it renders, from the moment the connection
\* of the page load is established
InitBars ==
    /\ page = "classification"
    /\ factory = TRUE
    /\ userFiles \in {s \in sessionsOf(page) : \E f \in s : f.name = "a.png"}
    /\ gradioClient = 1
    /\ currentImage = NoFile
    /\ dom = initConnected(constructedDom(page))
    /\ readers = {}
    /\ boot = [pc |-> "done", attempts |-> 0]
    /\ requests = EmptyBag
    /\ resultData = NoData
    /\ augmentationResults = NullResults
    /\ errors = <<>>
    /\ slots = InitialSlots
    /\ listeners = 0
    /\ timers = <<>>
    /\ saves = <<>>
    /\ imageModal = ClosedModal

NextBars ==
    \/ \E file \in Pictures : ProcessFile(file)
    \/ Submit("click")
    \/ \E r \in BagToSet(requests) : BlobRead(r, TRUE)
    \/ \E r \in BagToSet(requests), resp \in BarResponses : AnalyzeResolved(r, resp)

SpecBars == InitBars /\ [][NextBars]_vars

\* both pages with a user who has two acceptable pictures at hand, from the
\* construction of the page with the client library loaded: the connection of the
\* page load is pending, and the responses are ones that get rendered
TwoPictures == {f \in Pictures : f.name \in {"a.png", "b.jpeg"}}

InitSelection ==
    /\ page \in Pages
    /\ factory = TRUE
    /\ userFiles = TwoPictures
    /\ gradioClient = 0
    /\ currentImage = NoFile
    /\ dom = constructedDom(page)
    /\ readers = {}
    /\ boot = [pc |-> initStep(0, factory), attempts |-> 0]
    /\ requests = EmptyBag
    /\ resultData = NoData
    /\ augmentationResults = NullResults
    /\ errors = <<>>
    /\ slots = InitialSlots
    /\ listeners = 0
    /\ timers = <<>>
    /\ saves = <<>>
    /\ imageModal = ClosedModal

NextSelection ==
    \/ \E ok \in BOOLEAN : BootConnect(ok)
    \/ \E file \in TwoPictures : ProcessFile(file)
    \/ \E file \in TwoPictures : PreviewLoaded(file)
    \/ ClearImage
    \/ Submit("click")
    \/ \E r \in BagToSet(requests), ok \in BOOLEAN : RequestConnect(r, ok)
    \/ \E r \in BagToSet(requests) : BlobRead(r, TRUE)
    \/ \E r \in BagToSet(requests) :
          \E resp \in {a \in ClsResponses : analyzeResult(a).render} :
             AnalyzeResolved(r, resp)
    \/ \E r \in BagToSet(requests) :
          \E resp \in {a \in PlainAugResponses : augmentResult(a).render} :
             AugmentResolved(r, resp)

SpecSelection == InitSelection /\ [][NextSelection]_vars

\* the connection initialisation of the page load alone.  A timer that was set
\* fires and the connect call is given an outcome (it resolves or it rejects).
NextInit ==
    \/ LoadFactory
    \/ BootPoll
    \/ \E ok \in BOOLEAN : BootConnect(ok)

SpecInit ==
    /\ Init
    /\ [][NextInit]_vars
    /\ WF_vars(BootPoll)
    /\ WF_vars(\E ok \in BOOLEAN : BootConnect(ok))

----------------------------------------------------------------------------
(* Properties *)

\* a request ended in this step with an error notification
RequestFailed == requests' # requests /\ Outstanding' < Outstanding /\ errors' # <<>>

\* a request ended in this step
RequestEnded == requests' # requests /\ Outstanding' < Outstanding

Panels(d) == <<d.loadingState, d.resultsContent, d.emptyState>>

\* a step that starts, continues or ends no request and no connection attempt,
\* as every step of the upload controller is
NoRequestStep == UNCHANGED <<gradioClient, factory, boot, requests>>

\* C1: on the classification page at most one predict call is outstanding at any
\* time: a click on analyze while a request awaits its response starts no second one.
C1_OnePredictOutstanding ==
    page = "classification" => InFlight("predict") <= 1

\* C2: on the augmentation page the submit control is disabled for as long as a
\* request started by generateAugmentations has not resolved, whatever the user does.
C2_DisabledWhileOutstanding ==
    (page = "augmentation" /\ Outstanding > 0) => dom.submitDisabled

\* C3: on the augmentation page, when the last running request ends, with success
\* or with failure, and an image is still selected, the submit control is enabled
\* again.
C3_EnabledWhenRequestEnds ==
    [][(page = "augmentation" /\ RequestEnded /\ Outstanding' = 0
          /\ currentImage' # NoFile)
         => ~dom'.submitDisabled]_vars

\* C4: on the augmentation page, after the last running request has failed, the
\* loading panel is not shown any more and the page is back at its empty panel.
C4_NotLoadingAfterFailure ==
    [][(page = "augmentation" /\ RequestFailed /\ Outstanding' = 0)
         => (~dom'.loadingState /\ dom'.emptyState)]_vars

\* C5 (as stated): when a classification request fails after an earlier request
\* has rendered its response, the results panel is visible after the failure, with
\* the same content.
C5_ResultsStillVisibleAfterFailure ==
    [][(page = "classification" /\ RequestFailed /\ resultData # NoData)
         => (dom'.resultsContent /\ resultData' = resultData)]_vars

\* C5 (amended): a failing classification request does not modify the content
\* rendered by an earlier request, and it ends on the empty panel: the results
\* panel and the loading panel are hidden.
C5_FailureKeepsContentShowsEmpty ==
    [][(page = "classification" /\ RequestFailed)
         => /\ resultData' = resultData
            /\ Panels(dom') = <<FALSE, FALSE, TRUE>>]_vars

\* a request has failed after an earlier one had rendered its response
C5_Witness ==
    /\ page = "classification"
    /\ resultData # NoData
    /\ errors = <<(<<"Analysis", "failed:", "Failed", "to", "fetch">>)>>
    /\ Panels(dom) = <<FALSE, FALSE, TRUE>>

\* the step in which the predict call of some request resolves with resp
Resolves(resp) == \E r \in BagToSet(requests) : AnalyzeResolved(r, resp)

Entries == {resp \in ClsResponses : resp.shape = "entry"}

\* C6 (as stated): whenever the first entry of the response carries an error field,
\* the request fails with that error's message and nothing is rendered, even when
\* the entry also carries a class and probabilities.
C6_ErrorFieldFails ==
    [][(page = "classification" /\ RequestEnded) =>
       \A resp \in {e \in Entries : e.error # Absent} :
          Resolves(resp)
            => /\ errors' = <<(<<"Analysis", "failed:", resp.error>>)>>
               /\ ~dom'.resultsContent
               /\ resultData' = resultData]_vars

\* C6 (amended): whenever the first entry of the response carries a non-empty error
\* field, the request fails with that error's message and nothing is rendered, even
\* when the entry also carries a class and probabilities; an entry with an empty
\* error field, a class and probabilities is rendered.
C6_NonEmptyErrorFieldFails ==
    [][(page = "classification" /\ RequestEnded) =>
       /\ \A resp \in {e \in Entries : e.error \notin {Absent, ""}} :
             Resolves(resp)
               => /\ errors' = <<(<<"Analysis", "failed:", resp.error>>)>>
                  /\ ~dom'.resultsContent
                  /\ resultData' = resultData
       /\ \A resp \in {e \in Entries : e.error = "" /\ e.class # Absent
                                        /\ e.probabilities # Absent} :
             Resolves(resp)
               => /\ errors' = <<>>
                  /\ dom'.resultsContent
                  /\ resultData' = resp]_vars

\* the request has failed with the message of the entry's error field
C6_Witness ==
    /\ page = "classification"
    /\ errors = <<(<<"Analysis", "failed:", "model unavailable">>)>>
    /\ ~dom.resultsContent

\* C7 (as stated): an entry without an error field is rejected as malformed only
\* if it lacks both the class and the probabilities.
C7_RejectedIffBothMissing ==
    [][(page = "classification" /\ RequestEnded) =>
       \A resp \in {e \in Entries : e.error = Absent} :
          Resolves(resp)
            => ((errors' # <<>>) <=> (resp.class = Absent /\ resp.probabilities = Absent))]_vars

\* C7 (amended): an entry without an error field is rejected as malformed if it
\* lacks the class or the probabilities, and rendered only if it has both; a
\* response with no result, no data or no first entry always fails as malformed.
C7_RejectedIffOneMissing ==
    [][(page = "classification" /\ RequestEnded) =>
       /\ \A resp \in ClsResponses \ Entries :
             Resolves(resp)
               => /\ errors' = <<(<<"Analysis", "failed:", "No", "valid", "response",
                                    "from", "Gradio", "API">>)>>
                  /\ ~dom'.resultsContent
                  /\ resultData' = resultData
       /\ \A resp \in {e \in Entries : e.error = Absent} :
             Resolves(resp)
               => IF resp.class = Absent \/ resp.probabilities = Absent
                  THEN /\ errors' = <<(<<"Analysis", "failed:", "Invalid", "response",
                                         "format", "from", "API">>)>>
                       /\ ~dom'.resultsContent
                       /\ resultData' = resultData
                  ELSE /\ errors' = <<>>
                       /\ dom'.resultsContent
                       /\ resultData' = resp]_vars

\* a response has been rejected as malformed
C7_Witness ==
    /\ page = "classification"
    /\ errors = <<(<<"Analysis", "failed:", "Invalid", "response", "format", "from", "API">>)>>
    /\ ~dom.resultsContent

\* C8: on both pages a submission with no image selected only reports an error: no
\* request is started, no connection is attempted and the loading state is not
\* entered.
C8_NoImageNoRequest ==
    [][(SubmitCall /\ currentImage = NoFile)
         => /\ errors' = <<(<<"No", "image", "selected.">>)>>
            /\ requests' = requests
            /\ gradioClient' = gradioClient
            /\ boot' = boot
            /\ dom'.loadingState => dom.loadingState
            /\ dom'.status = dom.status
            /\ dom'.submitDisabled = dom.submitDisabled]_vars

\* the method has been called with no image selected and nothing is running
C8_Witness ==
    /\ page = "classification"
    /\ currentImage = NoFile
    /\ errors = <<(<<"No", "image", "selected.">>)>>
    /\ Outstanding = 0
    /\ ~dom.loadingState

\* C9: on both pages a file whose type is none of image/png, image/jpeg and
\* image/jpg is rejected with an error; an idle page (no image selected, empty
\* panel shown, submit control disabled) is left idle.
C9_InvalidTypeRejected ==
    [][NoRequestStep =>
       \A file \in {f \in InputFiles : f.type \notin {"image/png", "image/jpeg", "image/jpg"}} :
          ProcessFile(file)
            => /\ Len(errors') = 1
               /\ currentImage' = currentImage
               /\ (currentImage = NoFile /\ dom.emptyState /\ dom.submitDisabled)
                    => /\ dom'.submitDisabled
                       /\ Panels(dom') = Panels(dom)]_vars

\* a file that is no picture has been rejected on the idle page
C9_Witness ==
    /\ Len(errors) = 1
    /\ errors[1][1] = "Please"
    /\ currentImage = NoFile
    /\ dom.emptyState
    /\ dom.submitDisabled

\* C10: on the classification page a file of an allowed type is accepted exactly
\* when its size is at most 10 * 1024 * 1024 bytes (a file of exactly that size
\* becomes the selected image, one byte more is rejected); on the augmentation page
\* a file of an allowed type is accepted whatever its size.
C10_SizeLimit ==
    [][NoRequestStep =>
       \A file \in {f \in InputFiles : f.type \in {"image/png", "image/jpeg", "image/jpg"}} :
          ProcessFile(file)
            => IF page = "classification" /\ file.size > 10485760
               THEN /\ errors' = <<(<<"File", "size", "too", "large.">>)>>
                    /\ currentImage' = currentImage
               ELSE /\ errors' = <<>>
                    /\ currentImage' = file]_vars

\* a file of exactly the maximum size is the selected image of the classification
\* page
C10_Witness ==
    /\ page = "classification"
    /\ currentImage.size = 10485760

----------------------------------------------------------------------------
(* The connection handle *)

\* the connect() calls that have not resolved yet
ConnectsPending == InFlight("connect") + (IF boot.pc = "connect" THEN 1 ELSE 0)

\* C11: a page instance establishes at most one connection handle, however the
\* connection initialisation of the page load and the submissions interleave:
\* at most one connect call is pending while no handle exists, and this.gradioClient
\* is assigned at most once.
C11_OneConnectionHandle ==
    /\ ConnectsPending <= 1
    /\ gradioClient <= 1

\* a request's own connection acquisition failed in this step
AcquisitionFailed ==
    /\ requests' # requests
    /\ errors' # <<>>
    /\ errors'[1] = <<"Failed", "to", "connect", "to", "the", "AI", "service.">>

\* C12: when the connection acquisition of a submission fails, the submission
\* stops at that step: it ends (failed), the file is not converted, no predict call
\* follows, and the connection error is the only error reported.
C12_ConnectFailureStopsSubmission ==
    [][AcquisitionFailed
         => /\ Outstanding' < Outstanding
            /\ InFlight("toBlob")' = InFlight("toBlob")
            /\ Len(errors') = 1]_vars

\* a timer of the page-load polling loop fired in this step
BootWaited == boot.pc = "poll" /\ boot' # boot /\ factory' = factory

\* C13: initializeGradioClient waits at most 50 times for the client factory.  With
\* the factory still missing after the 50th wait it ends failed, without a connect
\* call and without a handle; with the factory there at a check it calls connect,
\* once: after the call it never waits or connects again.  Given that the connect
\* call gets an outcome, the operation terminates.
C13_BoundedPollingTerminates ==
    /\ [](boot.attempts < 50)
    /\ [][BootWaited
            => IF factory THEN boot'.pc = "connect"
               ELSE IF boot.attempts + 1 < 50
                    THEN boot'.pc = "poll" /\ boot'.attempts = boot.attempts + 1
                    ELSE /\ boot'.pc = "done"
                         /\ gradioClient' = 0
                         /\ Len(errors') = 1]_vars
    /\ [][boot.pc = "connect" => boot'.pc \in {"connect", "done"}]_vars
    /\ [][boot.pc = "done" => boot'.pc = "done"]_vars
    /\ <>(boot.pc = "done")

\* the factory never appeared: the operation gave up after its last wait
C13_Witness ==
    /\ boot.pc = "done"
    /\ ~factory
    /\ gradioClient = 0
    /\ errors = <<(<<"Failed", "to", "connect", "to", "the", "AI", "service.">>)>>

----------------------------------------------------------------------------
(* The augmentation grid *)

\* a response was rendered in this step (displayAugmentations ran)
Rendered == listeners' # listeners

\* the response arrays that are rendered, and the step that renders one
RenderedArrays == {resp \in AugResponses : resp.shape = "array" /\ Len(resp.data) >= 1}

Renders(resp) == \E r \in BagToSet(requests) : AugmentResolved(r, resp)

\* the reference of a response item: the string, else its url, else its path;
\* Absent for an item that has none
Reference(item) ==
    IF item.kind = "string" THEN item.str
    ELSE IF item.kind = "object" /\ item.url # Absent THEN item.url
    ELSE IF item.kind = "object" THEN item.path
    ELSE Absent

Usable(data) == {i \in 1..Len(data) : Reference(data[i]) # Absent}

\* C14: for every rendered response of at most 8 items, slot i is bound to item i:
\* a usable item i is shown in slot i with exactly its reference, an unusable
\* item i leaves slot i marked error, and no item is shown in another slot.
C14_SlotBoundToItem ==
    [][Rendered =>
       \A resp \in RenderedArrays :
          Renders(resp) =>
             \A i \in 1..Len(resp.data) :
                /\ IF i \in Usable(resp.data)
                   THEN slots'[i].src = Reference(resp.data[i])
                   ELSE slots'[i].error
                /\ \A j \in Usable(resp.data) \ {i} :
                      slots'[i].src = Reference(resp.data[j]) => slots'[i].src = slots[i].src]_vars

\* C15: a response with zero usable items (an empty array, or an array whose items
\* all lack url and path) makes the request fail: nothing is rendered, the status
\* does not become success and an error is reported.
C15_NoUsableItemFails ==
    [][(page = "augmentation" /\ RequestEnded) =>
       \A resp \in {x \in AugResponses : x.shape = "array" /\ Usable(x.data) = {}} :
          Renders(resp) =>
             /\ ~Rendered
             /\ slots' = slots
             /\ dom'.status # "success"
             /\ errors' # <<>>]_vars

\* the grid as the page load or clearImage leaves it: every image is empty, no
\* item is marked loaded, and an item is marked error only by the error event
\* of its emptied image
FreshGrid ==
    \A i \in SlotIds :
       /\ slots[i].src = ""
       /\ ~slots[i].loaded
       /\ slots[i].error => slots[i].hooked

InProgress(s) == {i \in SlotIds : s[i].loading \/ s[i].loaded}

InError(s) == {i \in SlotIds : s[i].error}

\* C16: first request after page load or clear: when a response of n <= 8 items
\* with k >= 1 usable ones is rendered, exactly k slots are loading or loaded and
\* exactly 8 - k slots are in error right after, the status is success and no
\* error is notified.
C16_FirstRenderCounts ==
    [][(Rendered /\ FreshGrid /\ Outstanding = 1 /\ currentImage # NoFile) =>
       \A resp \in {x \in RenderedArrays : Usable(x.data) # {}} :
          Renders(resp) =>
             /\ Cardinality(InProgress(slots')) = Cardinality(Usable(resp.data))
             /\ Cardinality(InError(slots')) = 8 - Cardinality(Usable(resp.data))
             /\ InProgress(slots') \cap InError(slots') = {}
             /\ dom'.status = "success"
             /\ errors' = <<>>]_vars

\* the slots other than i are as they were
OthersUnchanged(i) == \A j \in SlotIds \ {i} : slots'[j] = slots[j]

\* C17: when a response is rendered, a slot with a reference enters loading and a
\* slot without one is marked error at once; when the image load of a slot
\* completes, the slot leaves loading and becomes loaded on success, error on
\* failure.  Whatever the order of the completions, each changes its own slot only.
C17_SlotLifecycle ==
    [][/\ Rendered =>
            \A i \in SlotIds :
               IF i <= Len(augmentationResults'.urls)
               THEN slots'[i].loading /\ slots'[i].pending = "fetch"
               ELSE slots'[i].error /\ slots'[i].pending = slots[i].pending
       /\ \A i \in {j \in SlotIds : slots[j].pending # "none"} :
            /\ ImageLoaded(i) =>
                  /\ slots[i].loading
                  /\ slots'[i].loaded /\ ~slots'[i].loading
                  /\ slots'[i].error = slots[i].error
                  /\ OthersUnchanged(i)
            /\ ImageFailed(i) =>
                  /\ slots'[i].error /\ ~slots'[i].loading
                  /\ slots'[i].loaded = slots[i].loaded
                  /\ OthersUnchanged(i)]_vars

\* two slots were loading; the second one has failed, the first one loaded after it
C17_Witness ==
    /\ slots[1].loaded /\ ~slots[1].error /\ ~slots[1].loading
    /\ slots[2].error /\ ~slots[2].loaded /\ ~slots[2].loading
    /\ slots[2].src = "p.png"
    /\ slots[3].error /\ ~slots[3].hooked

\* C18: one click on the download button of a slot triggers exactly one save, of
\* the reference of that slot, however many responses the page has rendered
\* before; on a slot without a reference it triggers none.
C18_OneSavePerClick ==
    [][\A i \in SlotIds :
          DownloadClick(i) =>
             IF ~augmentationResults.isNull /\ i <= Len(augmentationResults.urls)
             THEN /\ Len(saves') = 1
                  /\ saves'[1].url = augmentationResults.urls[i]
             ELSE saves' = <<>>]_vars

\* the name part of a slot's file, by position
TypeOfSlot(i) ==
    IF i = 1 THEN "original" ELSE IF i = 2 THEN "rotation"
    ELSE IF i = 3 THEN "width-shift" ELSE IF i = 4 THEN "height-shift"
    ELSE IF i = 5 THEN "shear" ELSE IF i = 6 THEN "zoom"
    ELSE IF i = 7 THEN "brightness" ELSE "channel-shift"

\* slot i holds a reference of the current results
Populated(i) == ~augmentationResults.isNull /\ i <= Len(augmentationResults.urls)

C20_ClickOpensModal ==
    [][\A i \in {j \in SlotIds : slots[j].src # ""} :
          (ContainerClick(i) /\ listeners > 0)
             => imageModal'.active /\ imageModal'.src = slots[i].src]_vars

----------------------------------------------------------------------------
(* The rendering of the classification result *)

\* the position of a class in the mapping that was rendered
PositionOf(label) ==
    CHOOSE i \in 1..Len(resultData.entries) :
        formatClassName(resultData.entries[i].name) = label

BarLabels == {probabilityBars[i].name : i \in 1..Len(probabilityBars)}

\* C21: the bars are a permutation of the entries of the mapping (one bar per
\* class, none dropped, none twice), in non-increasing order of probability,
\* entries of equal probability in the order of the mapping.
C21_BarsSortedPermutation ==
    /\ Len(probabilityBars) = Len(resultData.entries)
    /\ BarLabels = {formatClassName(resultData.entries[i].name) :
                       i \in 1..Len(resultData.entries)}
    /\ \A i \in 1..Len(probabilityBars) :
          probabilityBars[i].value
             = resultData.entries[PositionOf(probabilityBars[i].name)].value
    /\ \A i, j \in 1..Len(probabilityBars) :
          i < j => /\ probabilityBars[i].value >= probabilityBars[j].value
                   /\ probabilityBars[i].value = probabilityBars[j].value
                        => PositionOf(probabilityBars[i].name)
                             < PositionOf(probabilityBars[j].name)

\* a mapping whose second class is the more probable one has been rendered
C21_Witness ==
    /\ dom.resultsContent
    /\ Len(resultData.entries) = 2
    /\ resultData.entries[1].value < resultData.entries[2].value
    /\ probabilityBars[1].name = formatClassName(resultData.entries[2].name)

\* C22: the chart lists the classes in the order of the bars and gives each class
\* the colour of its bar; a class outside the four known names has the neutral
\* default colour in both, a known class has not.
C22_ChartMatchesBars ==
    /\ Len(chart.labels) = Len(probabilityBars)
    /\ Len(chart.backgroundColor) = Len(probabilityBars)
    /\ \A i \in 1..Len(probabilityBars) :
          /\ chart.labels[i] = probabilityBars[i].name
          /\ chart.backgroundColor[i] = probabilityBars[i].color
          /\ chart.data[i] = probabilityBars[i].value
          /\ (probabilityBars[i].color = "#3498db")
                <=> probabilityBars[i].name
                       \notin {"Adenocarcinoma", "Large Cell Carcinoma", "Normal",
                               "Squamous Cell Carcinoma"}

\* an unknown class is the most probable one and a known one follows
C22_Witness ==
    /\ dom.resultsContent
    /\ Len(chart.labels) = 2
    /\ chart.labels = <<"Benign", "Normal">>
    /\ chart.backgroundColor = <<"#3498db", "#27ae60">>
    /\ resultData.entries[1].name = "normal"


----------------------------------------------------------------------------
(* The panels and the selection *)

\* the idle page
Idle ==
    /\ currentImage = NoFile
    /\ dom.submitDisabled
    /\ dom.emptyState
    /\ ~dom.loadingState
    /\ ~dom.resultsContent

\* C23: on both pages a clear, in whatever state it is invoked, leaves the page
\* idle: no image selected, the submit control disabled, the empty panel shown,
\* the loading panel and the results panel hidden.
C23_ClearLeavesIdle == [][ClearImage => Idle']_vars


\* the number of panels that are visible
Visible ==
    Cardinality({n \in {"loadingState", "resultsContent", "emptyState"} : dom[n]})

\* C24: on both pages, in every reachable state, at most one of the loading, the
\* results and the empty panel is visible.
C24_AtMostOnePanel == Visible <= 1


\* C25: the payload of a submission is the image that was selected when the user
\* submitted: a request that reads or has read its file holds the submitted image,
\* and a request whose wait for the connection ends well goes on with a payload
\* (another selection or a clear during the wait neither replaces nor loses it).
C25_PayloadIsSubmittedImage ==
    /\ [](\A r \in BagToSet(requests) :
             r.pc \in {"toBlob", "predict"} => r.file = r.submitted)
    /\ [][\A r \in BagToSet(requests) :
             RequestConnect(r, TRUE) => Outstanding' = Outstanding]_vars


\* C26: on both pages, in every reachable state, the submit control is enabled
\* only if an image is selected.
C26_EnabledOnlyWithImage == ~dom.submitDisabled => currentImage # NoFile


\* the step renders the response of request r
Rendering(r) ==
    /\ r.pc = "predict"
    /\ requests' = Without(r)
    /\ dom'.status = "success"

\* C27: on both pages the results shown were computed from the currently
\* selected image: a response is rendered only if its request sent the image that
\* is selected, and a step that changes the selection leaves no results shown.
C27_ResultsOfSelectedImage ==
    [][/\ \A r \in BagToSet(requests) : Rendering(r) => r.file = currentImage
       /\ currentImage' # currentImage => ~dom'.resultsContent]_vars


\* C28: on both pages, whenever the preview is shown it shows the currently
\* selected image (once the decode of that image is over): a decode that
\* completes after another selection or a clear does not display its file.
C28_PreviewOfSelectedImage ==
    (dom.imagePreview /\ currentImage \notin readers) => dom.previewImg = currentImage


\* C29: augmentation page: in every reachable state no slot is marked both
\* loaded and error.
C29_LoadedExcludesError == \A i \in SlotIds : ~(slots[i].loaded /\ slots[i].error)


\* C30: on both pages a file that processFile rejects changes nothing but the
\* error notification: the selected image, the enabled state of the submit
\* control and the visible panel, results already displayed included, are as
\* before.
C30_RejectionChangesNothing ==
    [][\A file \in InputFiles :
          (ProcessFile(file) /\ ~accepts(page, file))
             => /\ currentImage' = currentImage
                /\ dom'.submitDisabled = dom.submitDisabled
                /\ Panels(dom') = Panels(dom)]_vars

====
